---------------------------- MODULE Spec2Model ----------------------------
(***************************************************************************)
(* A model of git-remote-branch-manager (src/main.go): one run of main,    *)
(* from flag parsing to the last remote delete, together with the input-   *)
(* writer goroutine and the external selector (fzf) process.               *)
(*                                                                         *)
(* Strings are sequences of characters; a character is a one-character     *)
(* TLA+ string, except the escape character 0x1b, written "ESC".           *)
(***************************************************************************)
EXTENDS Integers, Sequences, FiniteSets, TLC

(***************************************************************************)
(* Bounds of the model.                                                    *)
(***************************************************************************)
\* the most lines `git branch -r` prints in a run
MaxBranches == 2
\* the longest -get-remote-log argument drawn from the whole alphabet
MaxLen == 4
\* how many lines the selector's stdin pipe buffers before a write blocks
PipeCap == 1

(***************************************************************************)
(* Characters and string constants of the program.                         *)
(***************************************************************************)
ESC == "ESC"

\* the characters strings.TrimSpace removes (the ASCII part of unicode.IsSpace)
Space == {" ", "\t", "\n", "\r"}

ColorGreen == <<ESC, "[", "3", "2", "m">>

ColorRed == <<ESC, "[", "3", "1", "m">>

ColorYellow == <<ESC, "[", "3", "3", "m">>

ColorReset == <<ESC, "[", "0", "m">>

\* the character class [[0-9;] of the pattern "\033[[0-9;]*m": the pattern has no
\* escaped bracket, so "[" opens the class and the second "[" is a member of it
AnsiClass == {"[", ";", "0", "1", "2", "3", "4", "5", "6", "7", "8", "9"}

\* the indicator texts the README documents for the three statuses
Indicator(status) ==
    CASE status = "Protected" -> <<"(", "p", "r", "o", "t", "e", "c", "t", "e", "d", ")">>
      [] status = "Merged"    -> <<"(", "m", "e", "r", "g", "e", "d", ")">>
      [] OTHER                -> <<"(", "u", "n", "m", "e", "r", "g", "e", "d", ")">>

Color(status) ==
    CASE status = "Protected" -> ColorYellow
      [] status = "Merged"    -> ColorGreen
      [] OTHER                -> ColorRed

protectedBranches == { <<"m", "a", "i", "n">>, <<"m", "a", "s", "t", "e", "r">> }

\* the exit code of the selector that main treats as a cancellation
FzfCancelCode == 130

(***************************************************************************)
(* The string functions of Go's strings package that main uses.            *)
(***************************************************************************)
MatchAt(s, sep, i) ==
    /\ i + Len(sep) - 1 <= Len(s)
    /\ \A k \in 1..Len(sep) : s[i + k - 1] = sep[k]

RECURSIVE IndexFrom(_, _, _)
IndexFrom(s, sep, i) ==
    IF i + Len(sep) - 1 > Len(s) THEN 0
    ELSE IF MatchAt(s, sep, i) THEN i
    ELSE IndexFrom(s, sep, i + 1)

\* strings.Index, 1-based; 0 when sep does not occur
Index(s, sep) == IndexFrom(s, sep, 1)

\* strings.SplitN(s, sep, 2)
SplitN2(s, sep) ==
    LET i == Index(s, sep)
    IN  IF i = 0 THEN <<s>>
        ELSE <<SubSeq(s, 1, i - 1), SubSeq(s, i + Len(sep), Len(s))>>

\* strings.Split(s, sep) for a non-empty sep
RECURSIVE Split(_, _)
Split(s, sep) ==
    LET i == Index(s, sep)
    IN  IF i = 0 THEN <<s>>
        ELSE <<SubSeq(s, 1, i - 1)>> \o Split(SubSeq(s, i + Len(sep), Len(s)), sep)

RECURSIVE TrimLeft(_)
TrimLeft(s) ==
    IF s # <<>> /\ s[1] \in Space THEN TrimLeft(Tail(s)) ELSE s

RECURSIVE TrimRight(_)
TrimRight(s) ==
    IF s # <<>> /\ s[Len(s)] \in Space THEN TrimRight(SubSeq(s, 1, Len(s) - 1)) ELSE s

TrimSpace(s) == TrimRight(TrimLeft(s))

HasSuffix(s, suffix) ==
    /\ Len(suffix) <= Len(s)
    /\ SubSeq(s, Len(s) - Len(suffix) + 1, Len(s)) = suffix

\* the text a process prints when it prints each line followed by a newline
RECURSIVE Lines(_)
Lines(ls) ==
    IF ls = <<>> THEN <<>> ELSE Head(ls) \o <<"\n">> \o Lines(Tail(ls))

(***************************************************************************)
(* ansiStripper.ReplaceAllString(s, ""): the leftmost match is removed and *)
(* the scan goes on after it, in one pass.  A match is ESC, the longest    *)
(* run of class characters, and "m" ("m" is not in the class, so no        *)
(* shorter run can match).                                                 *)
(***************************************************************************)
RECURSIVE AnsiRunEnd(_, _)
AnsiRunEnd(s, j) ==
    IF j <= Len(s) /\ s[j] \in AnsiClass THEN AnsiRunEnd(s, j + 1) ELSE j

\* the index of the "m" ending the match that starts at i, or 0
AnsiMatchEnd(s, i) ==
    IF s[i] # ESC THEN 0
    ELSE LET j == AnsiRunEnd(s, i + 1)
         IN  IF j <= Len(s) /\ s[j] = "m" THEN j ELSE 0

RECURSIVE StripFrom(_, _)
StripFrom(s, i) ==
    IF i > Len(s) THEN <<>>
    ELSE LET j == AnsiMatchEnd(s, i)
         IN  IF j # 0 THEN StripFrom(s, j + 1)
             ELSE <<s[i]>> \o StripFrom(s, i + 1)

ansiStripper(s) == StripFrom(s, 1)

\* whether the pattern matches somewhere in s
HasAnsi(s) == \E i \in 1..Len(s) : AnsiMatchEnd(s, i) # 0

(***************************************************************************)
(* The functions of main.go.                                               *)
(***************************************************************************)
cleanBranchName_NoStrip(branchName) ==
    TrimSpace(SplitN2(branchName, <<" ", "(">>)[1])

cleanBranchName(branchName) ==
    LET cleaned == ansiStripper(branchName)
        parts   == SplitN2(cleaned, <<" ", "(">>)
    IN  TrimSpace(parts[1])

isProtectedBranch_WholeOnly(branchName) ==
    branchName \in protectedBranches

isProtectedBranch(branchName) ==
    LET parts == SplitN2(branchName, <<"/">>)
        name  == IF Len(parts) = 2 THEN parts[2] ELSE branchName
    IN  name \in protectedBranches

\* isMergedToHead, given the result of its `git branch -r --merged HEAD`
isMergedToHead_FailMerged(branch, result) ==
    \/ result.err
    \/ \E i \in 1..Len(Split(result.output, <<"\n">>)) :
          TrimSpace(Split(result.output, <<"\n">>)[i]) = TrimSpace(branch)

isMergedToHead(branch, result) ==
    IF result.err THEN FALSE
    ELSE LET mergedBranches == Split(result.output, <<"\n">>)
         IN  \E i \in 1..Len(mergedBranches) :
                TrimSpace(mergedBranches[i]) = TrimSpace(branch)

\* fmt.Sprintf("%s%s %s%s", color, trimmedBranch, indicator, ColorReset)
Decorate(status, trimmedBranch) ==
    Color(status) \o trimmedBranch \o <<" ">> \o Indicator(status) \o ColorReset


\* the test of main's listing loop that lets a trimmed line become a candidate
IsListed(trimmedBranch) ==
    /\ trimmedBranch # <<>>
    /\ ~HasSuffix(trimmedBranch, <<"/", "H", "E", "A", "D">>)

\* whether the listing loop reaches isMergedToHead for the line
NeedsMergedQuery_Always(trimmedBranch) == TRUE

NeedsMergedQuery(trimmedBranch) == ~isProtectedBranch(trimmedBranch)

\* the status the if/else-if/else of the listing loop picks
Classify(trimmedBranch, result) ==
    IF isProtectedBranch(trimmedBranch) THEN "Protected"
    ELSE IF isMergedToHead(trimmedBranch, result) THEN "Merged"
    ELSE "Unmerged"

\* survey.AskOne(&survey.Confirm{Default: false}, &confirm): the value left in
\* confirm; an error of the prompt is ignored and leaves it false
AskOne_DefaultYes(answer) == answer \in {"yes", "default"}

AskOne(answer) == answer = "yes"

\* err is an *exec.ExitError with ExitCode() == 130
IsCancelled_Never(code) == FALSE

IsCancelled(code) == code = FzfCancelCode

(***************************************************************************)
(* The environment: what the external programs can answer.                 *)
(***************************************************************************)
\* lines `git branch -r` can print, in the order it prints them
RawLines ==
    << <<" ", " ", "o", "/", "a">>,
       <<" ", " ", "o", "/", "m", "a", "i", "n">>,
       <<" ", " ", "o", "/", "H", "E", "A", "D", " ", "-", ">", " ", "o", "/", "m", "a", "i", "n">>,
       <<" ", " ", "o", "/", "H", "E", "A", "D">>,
       <<" ", " ", "t">>,
       <<" ", " ", ESC, "[", "3", "1", "m", "o", "/", "b", ESC, "[", "m">>,
       <<" ", " ", "m", "a", "s", "t", "e", "r">> >>

\* the strictly increasing index sequences of length at most n over 1..m
Increasing(m, n) ==
    { s \in UNION { [1..k -> 1..m] : k \in 0..n } :
        \A i \in 1..(Len(s) - 1) : s[i] < s[i + 1] }

\* the sequences of distinct indices over 1..m
Distinct(m) ==
    { s \in UNION { [1..k -> 1..m] : k \in 0..m } :
        \A i, j \in 1..Len(s) : i # j => s[i] # s[j] }

Pick(list, ixs) == [i \in 1..Len(ixs) |-> list[ixs[i]]]

\* the outputs of `git branch -r`
GitOutputs == { Lines(Pick(RawLines, ixs)) : ixs \in Increasing(Len(RawLines), MaxBranches) }

\* the results of `git branch -r --merged HEAD`
MergedResults ==
    { [err |-> TRUE, output |-> <<>>],
      [err |-> FALSE, output |-> Lines(<<RawLines[1], RawLines[2]>>)] }

\* a line the selector prints for a chosen candidate: as it was given, or with
\* the colours removed (fzf --ansi)
SelectorEcho(item, keepAnsi) == IF keepAnsi THEN item ELSE ansiStripper(item)

\* what the selector can print: the chosen candidates, in any order
SelectorOutputs(items) ==
    { Lines([i \in 1..Len(ixs) |-> SelectorEcho(items[ixs[i]], keep)]) :
        ixs \in Distinct(Len(items)), keep \in BOOLEAN }

\* exit codes of the selector: a selection, no match, a cancellation
SelectorCodes == {0, 1, FzfCancelCode}

Alphabet == {ESC, "[", "m", " ", "(", "a"}

\* the values of the -get-remote-log flag: every short string, and longer samples
LogArgs ==
    UNION { [1..k -> Alphabet] : k \in 1..MaxLen }
      \cup { Decorate("Merged", TrimSpace(RawLines[1])),
             <<ESC, "[", ESC, "[", "0", "m", "m", "o", "/", "a">> }

Answers == {"yes", "no", "default", "none"}

(***************************************************************************)
(* The state of a run.                                                     *)
(***************************************************************************)
VARIABLES
    pc,                 \* where main is
    getLogFlag,         \* the -get-remote-log flag; <<>> when not given
    helpFlag,           \* the -h flag
    cleanName,          \* the name the preview handler passes to git log
    allRemoteBranches,  \* the lines of `git branch -r`
    idx,                \* the listing loop's position in allRemoteBranches
    fzfItems,           \* the decorated candidates
    classified,         \* per candidate: its line, status, and merged query
    mergedQueries,      \* how many times `git branch -r --merged HEAD` ran
    writerPc,           \* the input-writer goroutine: idle, run, closed
    writerIdx,          \* its position in fzfItems
    pipe,               \* the lines buffered in the selector's stdin pipe
    stdinOpen,          \* whether main's end of that pipe is open
    fzf,                \* the selector: none, ready, running, exited, failed
    fzfCode,            \* its exit code
    fzfStdout,          \* what it printed
    branchesToDelete,
    protectedBranchesSelected,
    delIdx,             \* the deletion loop's position in branchesToDelete
    prompted,           \* whether the confirmation prompt was shown
    answer,             \* what the user answered to it
    log,                \* what the run printed and the deletes it invoked
    exitCode            \* the exit status, once pc = "exit"

vars == << pc, getLogFlag, helpFlag, cleanName, allRemoteBranches, idx, fzfItems,
           classified, mergedQueries, writerPc, writerIdx, pipe, stdinOpen, fzf,
           fzfCode, fzfStdout, branchesToDelete, protectedBranchesSelected,
           delIdx, prompted, answer, log, exitCode >>

listVars == << allRemoteBranches, idx, fzfItems, classified, mergedQueries >>

adapterVars == << writerPc, writerIdx, pipe, stdinOpen, fzf, fzfCode, fzfStdout >>

planVars == << branchesToDelete, protectedBranchesSelected, delIdx, prompted, answer >>

flagVars == << getLogFlag, helpFlag, cleanName >>

Init ==
    /\ pc = "start"
    /\ getLogFlag \in {<<>>} \cup LogArgs
    /\ helpFlag \in BOOLEAN
    /\ cleanName = <<>>
    /\ allRemoteBranches = <<>>
    /\ idx = 1
    /\ fzfItems = <<>>
    /\ classified = <<>>
    /\ mergedQueries = 0
    /\ writerPc = "idle"
    /\ writerIdx = 1
    /\ pipe = <<>>
    /\ stdinOpen = FALSE
    /\ fzf = "none"
    /\ fzfCode = 0
    /\ fzfStdout = <<>>
    /\ branchesToDelete = <<>>
    /\ protectedBranchesSelected = <<>>
    /\ delIdx = 1
    /\ prompted = FALSE
    /\ answer = "none"
    /\ log = <<>>
    /\ exitCode = 0

\* os.Exit(code) after printing msgs; the goroutine ends with the process
Exit(code, msgs) ==
    /\ pc' = "exit"
    /\ exitCode' = code
    /\ log' = log \o msgs

(***************************************************************************)
(* main up to the listing.                                                 *)
(***************************************************************************)
\* the internal preview request: -get-remote-log <line>
GetRemoteLog ==
    /\ pc = "start"
    /\ getLogFlag # <<>>
    /\ cleanName' = cleanBranchName(getLogFlag)
    /\ \E gitOk \in BOOLEAN : Exit(IF gitOk THEN 0 ELSE 1, <<>>)
    /\ UNCHANGED << getLogFlag, helpFlag, listVars, adapterVars, planVars >>

Help ==
    /\ pc = "start"
    /\ getLogFlag = <<>>
    /\ helpFlag
    /\ Exit(0, << <<"Help">> >>)
    /\ UNCHANGED << flagVars, listVars, adapterVars, planVars >>

\* exec.LookPath("fzf") fails
FzfNotFound ==
    /\ pc = "start"
    /\ getLogFlag = <<>>
    /\ ~helpFlag
    /\ Exit(1, << <<"FzfNotFound">>, <<"InstallFzf">> >>)
    /\ UNCHANGED << flagVars, listVars, adapterVars, planVars >>

\* `git branch -r` fails
ListFails ==
    /\ pc = "start"
    /\ getLogFlag = <<>>
    /\ ~helpFlag
    /\ Exit(1, << <<"ErrorGettingRemoteBranches">> >>)
    /\ UNCHANGED << flagVars, listVars, adapterVars, planVars >>

\* `git branch -r` prints one of outputs, which main splits into lines
ListBranchesFrom(outputs) ==
    /\ pc = "start"
    /\ getLogFlag = <<>>
    /\ ~helpFlag
    /\ \E output \in outputs :
          allRemoteBranches' = Split(output, <<"\n">>)
    /\ pc' = "classify"
    /\ UNCHANGED << flagVars, idx, fzfItems, classified, mergedQueries,
                    adapterVars, planVars, log, exitCode >>

ListBranches == ListBranchesFrom(GitOutputs)

\* one iteration of the listing loop
ClassifyNext ==
    /\ pc = "classify"
    /\ idx <= Len(allRemoteBranches)
    /\ idx' = idx + 1
    /\ LET trimmedBranch == TrimSpace(allRemoteBranches[idx])
       IN  IF ~IsListed(trimmedBranch)
           THEN UNCHANGED << fzfItems, classified, mergedQueries >>
           ELSE IF ~NeedsMergedQuery(trimmedBranch)
           THEN LET status == Classify(trimmedBranch, [err |-> TRUE, output |-> <<>>])
                IN  /\ fzfItems' = Append(fzfItems, Decorate(status, trimmedBranch))
                    /\ classified' = Append(classified,
                          [branch |-> trimmedBranch, status |-> status,
                           queried |-> FALSE, failed |-> FALSE])
                    /\ UNCHANGED mergedQueries
           ELSE \E result \in MergedResults :
                  LET status == Classify(trimmedBranch, result)
                  IN  /\ fzfItems' = Append(fzfItems, Decorate(status, trimmedBranch))
                      /\ classified' = Append(classified,
                            [branch |-> trimmedBranch, status |-> status,
                             queried |-> TRUE, failed |-> result.err])
                      /\ mergedQueries' = mergedQueries + 1
    /\ UNCHANGED << pc, flagVars, allRemoteBranches, adapterVars, planVars, log, exitCode >>

\* the listing loop is over and there is no candidate
NoRemoteBranches ==
    /\ pc = "classify"
    /\ idx > Len(allRemoteBranches)
    /\ fzfItems = <<>>
    /\ Exit(0, << <<"NoRemoteBranches">> >>)
    /\ UNCHANGED << flagVars, listVars, adapterVars, planVars >>

\* os.Executable() or fzfCmd.StdinPipe() fails
PrepareFails ==
    /\ pc = "classify"
    /\ idx > Len(allRemoteBranches)
    /\ fzfItems # <<>>
    /\ Exit(1, <<>>)
    /\ UNCHANGED << flagVars, listVars, adapterVars, planVars >>

(***************************************************************************)
(* The selection adapter: the pipe, the input-writer goroutine, the        *)
(* selector process, and fzfCmd.Run().                                     *)
(***************************************************************************)
\* what a write of one line to the selector's stdin does: it fails once main's
\* end is closed or the read end is gone, blocks while the pipe is full
WriteOutcome(open, reader, buffered) ==
    CASE ~open                          -> "error"
      [] reader \in {"exited", "failed"} -> "error"
      [] buffered < PipeCap             -> "ok"
      [] OTHER                          -> "block"

\* main calls fzfCmd.Run() right after `go func()`, whatever the goroutine did
RunMayStart_AfterWriter(writer) == writer = "closed"

RunMayStart(writer) == TRUE

\* fzfCmd.StdinPipe() and `go func() { ... }()`
SpawnWriter ==
    /\ pc = "classify"
    /\ idx > Len(allRemoteBranches)
    /\ fzfItems # <<>>
    /\ pc' = "spawned"
    /\ writerPc' = "run"
    /\ stdinOpen' = TRUE
    /\ fzf' = "ready"
    /\ UNCHANGED << flagVars, listVars, writerIdx, pipe, fzfCode, fzfStdout,
                    planVars, log, exitCode >>

\* fmt.Fprintln(fzfStdin, item), its error ignored
WriterWrite ==
    /\ pc # "exit"
    /\ writerPc = "run"
    /\ writerIdx <= Len(fzfItems)
    /\ LET outcome == WriteOutcome(stdinOpen, fzf, Len(pipe))
       IN  /\ outcome # "block"
           /\ pipe' = IF outcome = "ok" THEN Append(pipe, fzfItems[writerIdx]) ELSE pipe
    /\ writerIdx' = writerIdx + 1
    /\ UNCHANGED << pc, flagVars, listVars, writerPc, stdinOpen, fzf, fzfCode,
                    fzfStdout, planVars, log, exitCode >>

\* the deferred fzfStdin.Close()
WriterClose ==
    /\ pc # "exit"
    /\ writerPc = "run"
    /\ writerIdx > Len(fzfItems)
    /\ writerPc' = "closed"
    /\ stdinOpen' = FALSE
    /\ UNCHANGED << pc, flagVars, listVars, writerIdx, pipe, fzf, fzfCode,
                    fzfStdout, planVars, log, exitCode >>

\* Run: Start succeeds and main waits for the selector
StartFzf ==
    /\ pc = "spawned"
    /\ RunMayStart(writerPc)
    /\ fzf' = "running"
    /\ pc' = "wait"
    /\ UNCHANGED << flagVars, listVars, writerPc, writerIdx, pipe, stdinOpen,
                    fzfCode, fzfStdout, planVars, log, exitCode >>

\* Run: Start fails; it closes both ends of the pipe and Run returns the error
StartFails ==
    /\ pc = "spawned"
    /\ RunMayStart(writerPc)
    /\ fzf' = "failed"
    /\ stdinOpen' = FALSE
    /\ pipe' = <<>>
    /\ pc' = "wait"
    /\ UNCHANGED << flagVars, listVars, writerPc, writerIdx, fzfCode, fzfStdout,
                    planVars, log, exitCode >>

\* the selector reads a line of its input
SelectorRead ==
    /\ pc # "exit"
    /\ fzf = "running"
    /\ pipe # <<>>
    /\ pipe' = Tail(pipe)
    /\ UNCHANGED << pc, flagVars, listVars, writerPc, writerIdx, stdinOpen, fzf,
                    fzfCode, fzfStdout, planVars, log, exitCode >>

\* the selector prints the lines the user chose
SelectorPrint ==
    /\ pc # "exit"
    /\ fzf = "running"
    /\ fzfStdout = <<>>
    /\ \E out \in SelectorOutputs(fzfItems) :
          /\ out # <<>>
          /\ fzfStdout' = out
    /\ UNCHANGED << pc, flagVars, listVars, writerPc, writerIdx, pipe, stdinOpen,
                    fzf, fzfCode, planVars, log, exitCode >>

\* the selector ends, having read any part of its input
SelectorExit ==
    /\ pc # "exit"
    /\ fzf = "running"
    /\ fzf' = "exited"
    /\ pipe' = <<>>
    /\ \E code \in SelectorCodes : fzfCode' = code
    /\ UNCHANGED << pc, flagVars, listVars, writerPc, writerIdx, stdinOpen,
                    fzfStdout, planVars, log, exitCode >>

\* Run returns: the selector is gone (or never started) and Wait has closed
\* main's end of the pipe
RunReturns ==
    /\ pc = "wait"
    /\ fzf \in {"exited", "failed"}
    /\ stdinOpen' = FALSE
    /\ pc' = "ran"
    /\ UNCHANGED << flagVars, listVars, writerPc, writerIdx, pipe, fzf, fzfCode,
                    fzfStdout, planVars, log, exitCode >>

(***************************************************************************)
(* main after Run: the plan, the prompt, the deletes.                      *)
(***************************************************************************)
\* the selected lines, cleaned
Cleaned(selectedBranchesStr) ==
    LET selected == Split(selectedBranchesStr, <<"\n">>)
    IN  [i \in 1..Len(selected) |-> cleanBranchName(selected[i])]

\* the two groups the partition loop builds
ProtectedOf(cleaned) == SelectSeq(cleaned, LAMBDA b : isProtectedBranch(b))

ToDeleteOf(cleaned) == SelectSeq(cleaned, LAMBDA b : ~isProtectedBranch(b))

\* main handles what Run returned and goes on to the prompt or exits
AfterRun ==
    /\ pc = "ran"
    /\ UNCHANGED << flagVars, listVars, adapterVars, delIdx, answer >>
    /\ IF fzf = "failed" \/ fzfCode # 0
       THEN /\ IF fzf = "exited" /\ IsCancelled(fzfCode)
               THEN Exit(0, << <<"DeletionCancelled">> >>)
               ELSE Exit(1, <<>>)
            /\ UNCHANGED << branchesToDelete, protectedBranchesSelected, prompted >>
       ELSE LET selectedBranchesStr == TrimSpace(fzfStdout)
                cleaned   == Cleaned(selectedBranchesStr)
                protected == ProtectedOf(cleaned)
                toDelete  == ToDeleteOf(cleaned)
                skipped   == [i \in 1..Len(protected) |->
                                 <<"ProtectedBranchSkipped", protected[i]>>]
            IN  IF selectedBranchesStr = <<>>
                THEN /\ Exit(0, << <<"NoBranchesSelected">> >>)
                     /\ UNCHANGED << branchesToDelete, protectedBranchesSelected, prompted >>
                ELSE /\ branchesToDelete' = toDelete
                     /\ protectedBranchesSelected' = protected
                     /\ IF toDelete = <<>>
                        THEN /\ Exit(0, skipped \o << <<"NoBranchesSelected">> >>)
                             /\ UNCHANGED prompted
                        ELSE /\ pc' = "prompt"
                             /\ prompted' = TRUE
                             /\ log' = log \o skipped \o << <<"ConfirmDeletion">> >>
                             /\ UNCHANGED exitCode

\* survey.AskOne returns
Confirm ==
    /\ pc = "prompt"
    /\ \E a \in Answers :
          /\ answer' = a
          /\ IF AskOne(a)
             THEN /\ pc' = "delete"
                  /\ UNCHANGED << log, exitCode >>
             ELSE Exit(0, << <<"DeletionCancelled">> >>)
    /\ UNCHANGED << flagVars, listVars, adapterVars, branchesToDelete,
                    protectedBranchesSelected, delIdx, prompted >>

\* where the deletion loop goes after an attempt
AfterAttempt_StopOnError(i, failed, n) == IF failed THEN n + 1 ELSE i + 1

AfterAttempt(i, failed, n) == i + 1

\* one iteration of the deletion loop
DeleteNext ==
    /\ pc = "delete"
    /\ delIdx <= Len(branchesToDelete)
    /\ LET branch == branchesToDelete[delIdx]
           parts  == SplitN2(branch, <<"/">>)
       IN  IF Len(parts) # 2
           THEN /\ log' = Append(log, <<"SkippingInvalid", branch>>)
                /\ delIdx' = delIdx + 1
           ELSE \E failed \in BOOLEAN :
                  /\ log' = log \o
                       << <<"delete", parts[1], parts[2]>>,
                          <<(IF failed THEN "ErrorDeletingBranch"
                                       ELSE "BranchDeletedSuccessfully"), branch>> >>
                  /\ delIdx' = AfterAttempt(delIdx, failed, Len(branchesToDelete))
    /\ UNCHANGED << pc, flagVars, listVars, adapterVars, branchesToDelete,
                    protectedBranchesSelected, prompted, answer, exitCode >>

\* main returns
Finish ==
    /\ pc = "delete"
    /\ delIdx > Len(branchesToDelete)
    /\ Exit(0, <<>>)
    /\ UNCHANGED << flagVars, listVars, adapterVars, planVars >>

\* every step but the listing
Steps ==
    \/ GetRemoteLog
    \/ Help
    \/ FzfNotFound
    \/ ListFails
    \/ ClassifyNext
    \/ NoRemoteBranches
    \/ PrepareFails
    \/ SpawnWriter
    \/ WriterWrite
    \/ WriterClose
    \/ StartFzf
    \/ StartFails
    \/ SelectorRead
    \/ SelectorPrint
    \/ SelectorExit
    \/ RunReturns
    \/ AfterRun
    \/ Confirm
    \/ DeleteNext
    \/ Finish

Next == ListBranches \/ Steps

Spec == Init /\ [][Next]_vars

(***************************************************************************)
(* The specification for progress.  The Go scheduler runs the goroutine    *)
(* and main whenever they can take a step, and the selector ends.  The     *)
(* adapter's progress depends on how many candidates there are and not on  *)
(* their text, so `git branch -r` prints the first k of RawLines here.     *)
(***************************************************************************)
FairOutputs == { Lines(SubSeq(RawLines, 1, k)) : k \in 0..MaxBranches }

ListFirstBranches == ListBranchesFrom(FairOutputs)

FairNext == ListFirstBranches \/ Steps

Fairness ==
    /\ WF_vars(WriterWrite)
    /\ WF_vars(WriterClose)
    /\ WF_vars(StartFzf \/ StartFails)
    /\ WF_vars(SelectorExit)
    /\ WF_vars(RunReturns)

FairSpec == Init /\ [][FairNext]_vars /\ Fairness

(***************************************************************************)
(* Properties.  The helpers below state what the claims speak of, in the   *)
(* claims' words and not through the functions of the program.             *)
(***************************************************************************)
\* the name policy: the part after the first "/" is main or master, or the whole
\* string is
NamedProtected(b) ==
    \/ b \in { <<"m", "a", "i", "n">>, <<"m", "a", "s", "t", "e", "r">> }
    \/ \E i \in 1..Len(b) :
          /\ b[i] = "/"
          /\ \A k \in 1..(i - 1) : b[k] # "/"
          /\ SubSeq(b, i + 1, Len(b)) \in
                { <<"m", "a", "i", "n">>, <<"m", "a", "s", "t", "e", "r">> }

Elems(seq) == { seq[i] : i \in 1..Len(seq) }

\* the remote-delete operations the run has invoked
DeleteOps == { i \in 1..Len(log) : log[i][1] = "delete" }

\* main has parsed a non-empty selection and split it into the two groups
Planned ==
    /\ fzf = "exited"
    /\ fzfCode = 0
    /\ pc \in {"prompt", "delete", "exit"}
    /\ TrimSpace(fzfStdout) # <<>>

\* C1: no remote delete is ever invoked for a branch named main or master, and
\* every selected line whose cleaned name is main or master (whole, or after the
\* first "/") is in the skipped-protected group and not in the to-delete group.
\* (The groups are built once, when main handles what Run returned, so the split
\* is checked in the states that step leads to; the deletes are checked always.)
C1_ProtectedNeverDeleted ==
    /\ \A i \in DeleteOps : log[i][3] \notin
          { <<"m", "a", "i", "n">>, <<"m", "a", "s", "t", "e", "r">> }
    /\ (Planned /\ (pc = "prompt" \/ ~prompted)) =>
          LET selected == Split(TrimSpace(fzfStdout), <<"\n">>)
          IN  \A i \in 1..Len(selected) :
                 LET c == cleanBranchName(selected[i])
                 IN  NamedProtected(c) =>
                        /\ c \in Elems(protectedBranchesSelected)
                        /\ c \notin Elems(branchesToDelete)

\* a run that selected a protected branch together with a deletable one, and
\* deleted the latter
C1_Witness ==
    /\ pc = "exit"
    /\ protectedBranchesSelected # <<>>
    /\ DeleteOps # {}

\* C2: a remote delete is invoked only after the prompt was shown and answered
\* yes; on any other answer the run prints the cancellation message, deletes
\* nothing and exits with status 0.
C2_DeletionIsOptIn ==
    /\ DeleteOps # {} => (prompted /\ answer = "yes")
    /\ (pc = "exit" /\ prompted /\ answer # "yes") =>
          /\ exitCode = 0
          /\ DeleteOps = {}
          /\ log[Len(log)] = <<"DeletionCancelled">>

\* the prompt was answered with the default (Enter), and the run has ended
C2_Witness ==
    /\ pc = "exit"
    /\ prompted
    /\ answer = "default"

\* C3: when the selector exits with code 130, whatever it printed, the run
\* invokes no remote delete, never shows the prompt, and exits with status 0.
C3_CancelIsGraceful ==
    (fzf = "exited" /\ fzfCode = 130) =>
        /\ DeleteOps = {}
        /\ ~prompted
        /\ pc \in {"wait", "ran", "exit"}
        /\ pc = "exit" => (exitCode = 0 /\ log[Len(log)] = <<"DeletionCancelled">>)

\* the selector printed a selection and exited 130, and the run has ended
C3_Witness ==
    /\ pc = "exit"
    /\ fzf = "exited"
    /\ fzfCode = 130
    /\ TrimSpace(fzfStdout) # <<>>

\* what the run printed and invoked after the confirmation table
AfterConfirm ==
    LET at == CHOOSE i \in 1..Len(log) : log[i] = <<"ConfirmDeletion">>
    IN  SubSeq(log, at + 1, Len(log))

\* entries is, branch by branch and in order: for a branch with a "/", one delete
\* of its remote and name then one report for it; for a branch without, one
\* notice that it is skipped
RECURSIVE AttemptsMatch(_, _)
AttemptsMatch(entries, branches) ==
    IF branches = <<>> THEN entries = <<>>
    ELSE LET b == Head(branches)
             slash == Index(b, <<"/">>)
         IN  IF slash = 0
             THEN /\ Len(entries) >= 1
                  /\ entries[1] = <<"SkippingInvalid", b>>
                  /\ AttemptsMatch(Tail(entries), Tail(branches))
             ELSE /\ Len(entries) >= 2
                  /\ entries[1] = <<"delete", SubSeq(b, 1, slash - 1),
                                     SubSeq(b, slash + 1, Len(b))>>
                  /\ entries[2] \in { <<"ErrorDeletingBranch", b>>,
                                      <<"BranchDeletedSuccessfully", b>> }
                  /\ AttemptsMatch(SubSeq(entries, 3, Len(entries)), Tail(branches))

\* C4 as stated: once the user has confirmed and the run has ended, a remote
\* delete was attempted once for every branch of toDelete, in order.
C4_EveryBranchAttempted ==
    (pc = "exit" /\ prompted /\ answer = "yes") =>
        LET ops == SelectSeq(AfterConfirm, LAMBDA e : e[1] = "delete")
        IN  /\ Len(ops) = Len(branchesToDelete)
            /\ \A i \in 1..Len(ops) :
                  ops[i][2] \o <<"/">> \o ops[i][3] = branchesToDelete[i]

\* C4 as amended: after the user confirms, the loop goes through toDelete in
\* selection order; every branch with a "/" gets exactly one delete attempt
\* followed by exactly one success or failure report, whether or not earlier
\* attempts failed, and a branch without a "/" gets no attempt but a notice.
C4_EveryWellFormedBranchAttempted ==
    /\ pc = "delete" =>
          AttemptsMatch(AfterConfirm, SubSeq(branchesToDelete, 1, delIdx - 1))
    /\ (pc = "exit" /\ prompted /\ answer = "yes") =>
          AttemptsMatch(AfterConfirm, branchesToDelete)

\* the first delete failed and a later one succeeded
C4_Witness ==
    /\ pc = "exit"
    /\ \E i, j \in 1..Len(log) :
          /\ i < j
          /\ log[i][1] = "ErrorDeletingBranch"
          /\ log[j][1] = "BranchDeletedSuccessfully"

\* a line of the remote's symbolic HEAD pointer: its first word ends in /HEAD
IsHeadPointer(line) ==
    LET word == SplitN2(line, <<" ">>)[1]
    IN  /\ Len(word) >= 5
        /\ SubSeq(word, Len(word) - 4, Len(word)) = <<"/", "H", "E", "A", "D">>

\* C5: no candidate offered to the selector is blank or the remote's HEAD
\* pointer line, and every candidate is trimmed of surrounding whitespace.
C5_NoHeadPointerCandidate ==
    \A i \in 1..Len(classified) :
        LET b == classified[i].branch
        IN  /\ b # <<>>
            /\ b[1] \notin {" ", "\t", "\n", "\r"}
            /\ b[Len(b)] \notin {" ", "\t", "\n", "\r"}
            /\ ~IsHeadPointer(b)

C7_CleanIsIdempotent ==
    (pc = "exit" /\ getLogFlag # <<>>) =>
        cleanBranchName(cleanName) = cleanName

\* C8 as stated: the merged query runs at most once in a run.
C8_AtMostOneMergedQuery == mergedQueries <= 1

\* C8 as amended: the merged query runs once for every listed branch that is
\* not protected and never for a protected one, so at most once per listed
\* branch; each run's output is membership-tested for that branch only.
C8_OneMergedQueryPerUnprotected ==
    /\ mergedQueries =
          Cardinality({ i \in 1..Len(classified) : ~NamedProtected(classified[i].branch) })
    /\ \A i \in 1..Len(classified) :
          classified[i].queried <=> ~NamedProtected(classified[i].branch)
    /\ mergedQueries <= Len(allRemoteBranches)

\* two unprotected branches were listed, the query ran twice, the selector runs
C8_Witness ==
    /\ pc = "wait"
    /\ mergedQueries = 2

Statuses == {"Protected", "Merged", "Unmerged"}

\* C10 as stated: cleaning the decorated line of a listed branch gives back the
\* listed line, for each status.
C10_DecorationReversible ==
    \A i \in 1..Len(classified), st \in Statuses :
        cleanBranchName(Decorate(st, classified[i].branch)) = classified[i].branch

\* C10 as amended: cleaning the decorated line of a listed line b gives what
\* cleaning b gives, for each status; that is b itself when b holds no colour
\* sequence and no " (".  Every branch of the plan is the cleaned text of a
\* listed line.  (The candidates are final when main leaves the listing loop,
\* and the plan when the prompt is shown, so each part is checked there.)
C10_DecorationReversibleUpToCleaning ==
    /\ pc \in {"classify", "spawned"} =>
       \A i \in 1..Len(classified), st \in Statuses :
          LET b == classified[i].branch
              colourless == \A k \in 1..Len(b) : b[k] # ESC
              plain == \A k \in 1..(Len(b) - 1) : ~(b[k] = " " /\ b[k + 1] = "(")
          IN  /\ cleanBranchName(Decorate(st, b)) = cleanBranchName(b)
              /\ (colourless /\ plain) => cleanBranchName(Decorate(st, b)) = b
              /\ cleanBranchName(fzfItems[i]) = cleanBranchName(b)
    /\ pc = "prompt" =>
       \A j \in 1..Len(branchesToDelete) :
          \E i \in 1..Len(classified) :
             branchesToDelete[j] = cleanBranchName(classified[i].branch)

\* a coloured and a plain line were listed, and one of them is being deleted
C10_Witness ==
    /\ pc = "delete"
    /\ \E i, j \in 1..Len(classified) :
          /\ \E k \in 1..Len(classified[i].branch) : classified[i].branch[k] = ESC
          /\ \A k \in 1..Len(classified[j].branch) : classified[j].branch[k] # ESC
          /\ cleanBranchName(fzfItems[j]) = classified[j].branch

=============================================================================
